---- MODULE Spec2Model ----
(***************************************************************************)
(* Model of backend/app/services/poker_service.py (PokerService) and of    *)
(* the add_action endpoint of backend/app/api/endpoints/hands.py.          *)
(*                                                                         *)
(* evaluate_poker_game replays an action list on a six-handed No-Limit     *)
(* Texas Hold'em state (blinds 20/40, minimum bet 40).  The record `state` *)
(* carries the fields of that state the service reads or changes through   *)
(* its calls (fold, check_or_call, complete_bet_or_raise_to, burn_card,    *)
(* deal_board, stacks, actor, is_terminal).  Seat 0 posts the small blind, *)
(* seat 1 the big blind; chips are collected, pushed and pulled            *)
(* automatically, cards are burnt and dealt by the service.                *)
(*                                                                         *)
(* Spec        one call of evaluate_poker_game                             *)
(* SpecTwin    two calls with the same arguments on one service            *)
(* SpecApi     add_action, one request after the other                     *)
(* SpecConc    add_action, two requests side by side                       *)
(* SpecNewGame create_new_game                                             *)
(* SpecHand    evaluate_hand                                               *)
(***************************************************************************)
EXTENDS Integers, Sequences, FiniteSets, TLC

\* ------------------------------------------------------------------------
\* Program constants
\* ------------------------------------------------------------------------
N == 6
SmallBlind == 20
BigBlind == 40
MinBet == 40
FlopCount == 3
BoardMax == 5

Players == 0 .. (N - 1)

\* ------------------------------------------------------------------------
\* Bounds of the model
\* ------------------------------------------------------------------------
\* longest stored action history of one game (add_action)
MaxStored == 3
\* longest action list that is replayed a second time
MaxReplay == 7
\* the deck is cut at 0 .. MaxCut
MaxCut == 25
\* the stacks of the seats that are not short in the inputs below
MidStack == 80
DeepStack == 200

AmountChoices == {40, 80}

NoPlayer == 0 - 1
NoAmount == 0 - 1

PlayerActionTypes == {"fold", "check", "call", "bet", "raise", "allin"}
DealActionTypes == {"deal_flop", "deal_turn", "deal_river"}
ValidActionTypes == PlayerActionTypes \cup DealActionTypes

VARIABLES
    pc,                  \* "start", "replay", "done", "error"; "api" for the endpoint
    stacks_in,           \* argument stacks of evaluate_poker_game
    board_cards,         \* argument board_cards: a sequence of cards
    player_cards,        \* argument player_cards: seat -> two hole cards
    state,               \* the game state built by create_state
    initial_stacks,      \* the snapshot taken before the replay loop
    street_cards_dealt,  \* the replay loop's own count
    results,             \* the returned map
    last,                \* the action handled last and what became of it
    actions,             \* the stored action history of a game (add_action)
    deck,                \* self.deck of the service
    game,                \* what create_new_game returned last
    twin,                \* a second call of evaluate_poker_game on the same service
    requests,            \* the add_action requests in flight
    hand,                \* evaluate_hand: the cards passed and what came back
    positions,           \* argument positions of evaluate_poker_game
    response             \* the HTTP status add_action answered with last

vars == <<pc, stacks_in, board_cards, player_cards, state, initial_stacks,
          street_cards_dealt, results, last, actions, deck, game, twin,
          requests, hand, positions, response>>

\* ------------------------------------------------------------------------
\* Helpers
\* ------------------------------------------------------------------------
Max(S) == CHOOSE x \in S : \A y \in S : y <= x
Min(S) == CHOOSE x \in S : \A y \in S : x <= y
Least(a, b) == IF a <= b THEN a ELSE b

RECURSIVE SumTo(_, _)
SumTo(f, k) == IF k < 0 THEN 0 ELSE f[k] + SumTo(f, k - 1)

\* the sum of f over the six seats
Total(f) == SumTo(f, N - 1)

Zeros == [i \in Players |-> 0]

\* seats in cyclic order, starting at seat k
Rotation(k) == [j \in 1 .. N |-> (k + j - 1) % N]

\* ------------------------------------------------------------------------
\* The game state: create_state and the automated steps
\* ------------------------------------------------------------------------
InHand(st) == {i \in Players : st.statuses[i]}
Active(st) == {i \in Players : st.statuses[i] /\ st.stacks[i] > 0}
MaxBet(st) == Max({st.bets[i] : i \in Players})
TotalPot(st) == st.pot + Total(st.bets)
Actor(st) ==
    IF st.phase = "betting" /\ st.actor_indices # <<>>
    THEN Head(st.actor_indices) ELSE NoPlayer
IsTerminal(st) == ~st.status

\* chips leave seat i's stack: the stack and the seat's contribution move together
Pay(st, i, amt) ==
    [st EXCEPT !.stacks[i] = @ - amt, !.contributed[i] = @ + amt]

\* variant: the blinds are posted by the seats the position map names
BlindAt(i) ==
    IF "sb" \in DOMAIN positions /\ i = positions["sb"] THEN SmallBlind
    ELSE IF "bb" \in DOMAIN positions /\ i = positions["bb"] THEN BigBlind
    ELSE 0

\* the blinds: create_state is given no seat assignment, seat 0 posts the
\* small blind and seat 1 the big blind
Blind(i) == IF i = 0 THEN SmallBlind ELSE IF i = 1 THEN BigBlind ELSE 0

\* variant: the blind is posted in full, whatever the stack
EffectiveBlindUncapped(stk, i) == Blind(i)

\* a blind is posted up to the seat's stack
EffectiveBlind(stk, i) == Least(Blind(i), stk[i])

\* create_state with automated blind posting; hole cards are still to be dealt
CreateState(stk) ==
    [stacks        |-> [i \in Players |-> stk[i] - EffectiveBlind(stk, i)],
     bets          |-> [i \in Players |-> EffectiveBlind(stk, i)],
     contributed   |-> [i \in Players |-> EffectiveBlind(stk, i)],
     statuses      |-> [i \in Players |-> TRUE],
     pot           |-> 0,
     actor_indices |-> <<>>,
     phase         |-> "hole",
     board         |-> 0,
     raise_amount  |-> 0,
     status        |-> TRUE]

\* variant: a queue that keeps the seats that cannot act
PruneNone(st, q) == q

\* seats that can still act, in the order of q
Prune(st, q) == SelectSeq(q, LAMBDA i : i \in Active(st))

\* the betting round is over: one seat left, nobody left to act, or the only
\* seat with chips has nothing to call
BettingOver(st) ==
    \/ Cardinality(InHand(st)) = 1
    \/ st.actor_indices = <<>>
    \/ /\ Cardinality(Active(st)) <= 1
       /\ \A i \in Active(st) : st.bets[i] >= MaxBet(st)

\* the seat holding the largest bet (ties: the highest seat)
MaxBetIndex(st) ==
    CHOOSE i \in Players :
        \A j \in Players :
            \/ st.bets[j] < st.bets[i]
            \/ st.bets[j] = st.bets[i] /\ j <= i

SecondBet(st) == Max({st.bets[j] : j \in Players \ {MaxBetIndex(st)}})

\* variant: the uncalled part goes back to the stack and to the pot as well
CollectBetsKeepUncalled(st) ==
    LET top == MaxBetIndex(st)
        back == st.bets[top] - SecondBet(st)
        ret == Pay(st, top, 0 - back)
    IN [ret EXCEPT !.pot = @ + Total(st.bets), !.bets = Zeros]

\* bet collection: the uncalled part of the largest bet goes back, the rest
\* of the bets goes to the pot
CollectBets(st) ==
    LET top == MaxBetIndex(st)
        back == st.bets[top] - SecondBet(st)
        ret == [Pay(st, top, 0 - back) EXCEPT !.bets[top] = @ - back]
    IN [ret EXCEPT !.pot = @ + Total(ret.bets), !.bets = Zeros]

\* side pots: one layer per distinct contribution of a seat still in the hand
Levels(st) == {st.contributed[i] : i \in InHand(st)} \ {0}
LevelBelow(st, l) == Max({x \in Levels(st) : x < l} \cup {0})
LayerAmount(st, l) ==
    Total([i \in Players |->
              Least(st.contributed[i], l)
                  - Least(st.contributed[i], LevelBelow(st, l))])
Eligible(st, l) == {i \in InHand(st) : st.contributed[i] >= l}
Winners(st, hands, l) ==
    {i \in Eligible(st, l) :
        \A j \in Eligible(st, l) : hands[j] <= hands[i]}

\* seat i's share of layer l: an equal split, odd chips to the first winner
Share(st, hands, l, i) ==
    LET w == Winners(st, hands, l)
        amt == LayerAmount(st, l)
    IN IF i \notin w THEN 0
       ELSE (amt \div Cardinality(w))
            + (IF i = Min(w) THEN amt % Cardinality(w) ELSE 0)

RECURSIVE PayoffOver(_, _, _, _)
PayoffOver(st, hands, L, i) ==
    IF L = {} THEN 0
    ELSE LET l == CHOOSE x \in L : TRUE
         IN Share(st, hands, l, i) + PayoffOver(st, hands, L \ {l}, i)

\* chips pushing and pulling: the pot goes to the winners' stacks, the hand ends
PushChips(st, hands) ==
    [st EXCEPT
        !.stacks = [i \in Players |->
                       st.stacks[i] + PayoffOver(st, hands, Levels(st), i)],
        !.pot = 0,
        !.actor_indices = <<>>,
        !.phase = "terminal",
        !.status = FALSE]

\* end of a betting round: collect; a lone seat takes the pot; after the river
\* the hands are shown; otherwise the next street waits for its burn card
EndBetting(st) ==
    LET c == [CollectBets(st) EXCEPT !.actor_indices = <<>>, !.raise_amount = 0]
    IN IF Cardinality(InHand(c)) = 1 THEN PushChips(c, Zeros)
       ELSE IF c.board = BoardMax THEN [c EXCEPT !.phase = "showdown"]
       ELSE [c EXCEPT !.phase = "burn"]

UpdateBetting(st) ==
    LET p == [st EXCEPT !.actor_indices = Prune(st, st.actor_indices)]
    IN IF BettingOver(p) THEN EndBetting(p) ELSE p

\* a betting round opens with the seat after the largest bet
BeginBetting(st) ==
    LET opener == (MaxBetIndex(st) + 1) % N
    IN UpdateBetting([st EXCEPT !.phase = "betting",
                                !.raise_amount = 0,
                                !.actor_indices = Rotation(opener)])

\* the hands shown at showdown, as ranks of the best hands of the seats still
\* in: any of them may hold the better hand
ShownHands(st) ==
    {[i \in Players |-> IF i \in S THEN 2 ELSE IF i \in InHand(st) THEN 1 ELSE 0] :
        S \in SUBSET InHand(st)}

\* the hands are a function of the cards dealt: when the same cards are
\* replayed a second time, the hands are the ones of the first time
Hands(st) == IF twin.on THEN {twin.hands} ELSE ShownHands(st)

\* the automated showdown that follows the last river action
Finish(st) ==
    IF st.phase = "showdown" THEN {PushChips(st, h) : h \in Hands(st)}
    ELSE {st}

\* ------------------------------------------------------------------------
\* The operations of the game state that the replay loop calls
\* ------------------------------------------------------------------------
\* fold(): the actor must face a bet
FoldOk(st) ==
    /\ Actor(st) # NoPlayer
    /\ st.bets[Actor(st)] < MaxBet(st)

Fold(st) ==
    UpdateBetting([st EXCEPT !.statuses[Actor(st)] = FALSE,
                             !.actor_indices = Tail(@)])

\* check_or_call(): the actor matches the largest bet as far as the stack goes
CheckOrCallOk(st) == Actor(st) # NoPlayer

CallAmount(st) ==
    Least(st.stacks[Actor(st)], MaxBet(st) - st.bets[Actor(st)])

CheckOrCall(st) ==
    LET a == Actor(st)
        amt == CallAmount(st)
    IN UpdateBetting([Pay(st, a, amt) EXCEPT !.bets[a] = @ + amt,
                                             !.actor_indices = Tail(@)])

\* the smallest and the largest total the actor may bet or raise to
MinRaiseTo(st) ==
    LET a == Actor(st)
        inc == IF st.raise_amount > MinBet THEN st.raise_amount ELSE MinBet
    IN Least(MaxBet(st) + inc, st.stacks[a] + st.bets[a])

MaxRaiseTo(st) == st.stacks[Actor(st)] + st.bets[Actor(st)]

\* variant: no upper limit on the amount
RaiseOkUncapped(st, amount) ==
    /\ Actor(st) # NoPlayer
    /\ st.stacks[Actor(st)] > MaxBet(st) - st.bets[Actor(st)]
    /\ Active(st) \ {Actor(st)} # {}
    /\ amount >= MinRaiseTo(st)

\* complete_bet_or_raise_to(amount): the actor must be able to do more than
\* call, somebody else must still have chips, and amount is within the limits
RaiseOk(st, amount) ==
    /\ Actor(st) # NoPlayer
    /\ st.stacks[Actor(st)] > MaxBet(st) - st.bets[Actor(st)]
    /\ Active(st) \ {Actor(st)} # {}
    /\ amount >= MinRaiseTo(st)
    /\ amount <= MaxRaiseTo(st)

RaiseTo(st, amount) ==
    LET a == Actor(st)
        inc == amount - MaxBet(st)
    IN UpdateBetting(
          [Pay(st, a, amount - st.bets[a]) EXCEPT
              !.bets[a] = amount,
              !.raise_amount = IF inc > @ THEN inc ELSE @,
              !.actor_indices = Tail(Rotation(a))])

\* variant: a card can be burnt at any time
BurnAlways(st) == TRUE

\* burn_card(): only when the street waits for its burn card
BurnOk(st) == st.phase = "burn"
BurnCard(st) == [st EXCEPT !.phase = "board"]

\* deal_board(cards): n cards are revealed and the street's betting begins
DealBoard(st, n) == BeginBetting([st EXCEPT !.board = @ + n])

\* ------------------------------------------------------------------------
\* validate_action
\* ------------------------------------------------------------------------
\* an action record; type "" stands for a missing type, NoPlayer and NoAmount
\* for a missing player and amount
Action(t, p, amt) == [type |-> t, player |-> p, amount |-> amt]

validate_action(a) ==
    /\ a.type # ""
    /\ a.type \in ValidActionTypes
    /\ a.type \in PlayerActionTypes =>
          /\ a.player # NoPlayer
          /\ a.player >= 0
          /\ a.player < N
    /\ a.type \in {"bet", "raise"} =>
          /\ a.amount # NoAmount
          /\ a.amount > 0

\* ------------------------------------------------------------------------
\* Inputs of evaluate_poker_game
\* ------------------------------------------------------------------------
\* Cards are numbers: 1 .. 52 are the well-formed cards, BadCard is a token
\* that _is_valid_card turns down.
Stacks(s) == [i \in Players |-> s[i + 1]]
Holes(S) == [i \in S |-> <<2 * i + 1, 2 * i + 2>>]
Board(n) == [k \in 1 .. n |-> 2 * N + k]
\* position maps: the one create_new_game hands out and test_evaluate_game
\* sends (dealer 0, sb 1, bb 2), the one in which seat 0 is the small blind,
\* one whose indices are all the same, and one without keys
TestPositions == [dealer |-> 0, sb |-> 1, bb |-> 2]
SeatZeroSmallBlind == [dealer |-> N - 1, sb |-> 0, bb |-> 1]
SamePositions == [dealer |-> 3, sb |-> 3, bb |-> 3]
NoPositions == <<>>

\* maps the position checks turn down: an unknown key, an index out of range
BadPositions == {[dealer |-> 0, utg |-> 3], [dealer |-> 0, sb |-> 1, bb |-> N]}

Input(s, b, h) ==
    [stacks |-> Stacks(s), board_cards |-> b, player_cards |-> h,
     positions |-> TestPositions]

At(in, pos) == [in EXCEPT !.positions = pos]

\* calls with well-formed, pairwise distinct cards: the stacks, the number of
\* board cards and the seats that get hole cards vary
GameInputs ==
    {Input(<<MidStack, MidStack, BigBlind, BigBlind, BigBlind, BigBlind>>,
           Board(BoardMax), Holes(Players)),
     At(Input(<<10, 30, BigBlind, MidStack, BigBlind, BigBlind>>,
              Board(BoardMax), Holes(Players)), SeatZeroSmallBlind),
     Input(<<DeepStack, DeepStack, BigBlind, BigBlind, BigBlind, BigBlind>>,
           Board(0), Holes(Players)),
     Input(<<BigBlind, MidStack, BigBlind, BigBlind, BigBlind, BigBlind>>,
           Board(FlopCount), Holes(Players)),
     At(Input(<<MidStack, BigBlind, BigBlind, BigBlind, BigBlind, BigBlind>>,
              Board(FlopCount + 1), Holes(Players)), SeatZeroSmallBlind),
     Input(<<BigBlind, BigBlind, BigBlind, BigBlind, BigBlind, BigBlind>>,
           Board(0), Holes(Players)),
     Input(<<MidStack, 0, MidStack, BigBlind, BigBlind, BigBlind>>,
           Board(BoardMax), Holes(Players))}

\* calls whose cards vary: one card of a three-card board and one hole card of
\* seats 0 and 1 are replaced by any card of CardChoices
BadCard == 0
CardChoices == {BadCard, 1, 2, 3, 2 * N + 1, 2 * N + 2}
BoardVariants ==
    {[Board(FlopCount) EXCEPT ![k] = c] : k \in 1 .. FlopCount, c \in CardChoices}
HoleVariants ==
    {[Holes({0, 1}) EXCEPT ![i][k] = c] :
        i \in {0, 1}, k \in 1 .. 2, c \in CardChoices}
CardInputs ==
    {Input(<<BigBlind, BigBlind, BigBlind, BigBlind, BigBlind, BigBlind>>, b, h) :
        b \in BoardVariants, h \in HoleVariants}

\* calls whose position map is turned down
PositionInputs ==
    {At(Input(<<BigBlind, BigBlind, BigBlind, BigBlind, BigBlind, BigBlind>>,
              Board(0), Holes(Players)), pos) : pos \in BadPositions}

Inputs == GameInputs \cup CardInputs \cup PositionInputs

\* the player field of a submitted player action: the seat whose turn it is,
\* or the seat after it
PlayerChoices(st) ==
    LET seat == IF Actor(st) = NoPlayer THEN 0 ELSE Actor(st)
    IN {seat, (seat + 1) % N}

\* actions that validate_action turns down: no type, an unknown type, no
\* player, a player out of range, no amount, an amount of zero
InvalidActions ==
    {Action("", NoPlayer, NoAmount),
     Action("muck", 0, NoAmount),
     Action("fold", NoPlayer, NoAmount),
     Action("check", N, NoAmount),
     Action("bet", 0, NoAmount),
     Action("raise", 0, 0)}

NoState ==
    [stacks        |-> Zeros,
     bets          |-> Zeros,
     contributed   |-> Zeros,
     statuses      |-> [i \in Players |-> TRUE],
     pot           |-> 0,
     actor_indices |-> <<>>,
     phase         |-> "none",
     board         |-> 0,
     raise_amount  |-> 0,
     status        |-> TRUE]

NoAction ==
    [type |-> "none", player |-> NoPlayer, amount |-> NoAmount,
     actor |-> NoPlayer, valid |-> FALSE, applied |-> FALSE]

\* the service as __init__ leaves it: a full deck, nothing else going on
DeckSize == 52
StandardDeck == [k \in 1 .. DeckSize |-> k]
NoGame == [status |-> "none"]
NoHand == [status |-> "none"]
NoRequests == <<>>
NoOutcome ==
    [pc |-> "none", results |-> Zeros, stacks |-> Zeros,
     positions |-> NoPositions]
NoTwin ==
    [on |-> FALSE, run |-> 1, log |-> <<>>, pos |-> 0, hands |-> Zeros,
     first |-> NoOutcome]

NoResponse == 0

Idle ==
    /\ response = NoResponse
    /\ deck = StandardDeck
    /\ game = NoGame
    /\ requests = NoRequests
    /\ hand = NoHand

Init ==
    /\ pc = "start"
    /\ Idle
    /\ twin = NoTwin
    /\ \E in \in Inputs :
          /\ stacks_in = in.stacks
          /\ board_cards = in.board_cards
          /\ player_cards = in.player_cards
          /\ positions = in.positions
    /\ state = NoState
    /\ initial_stacks = Zeros
    /\ street_cards_dealt = 0
    /\ results = Zeros
    /\ last = NoAction
    /\ actions = <<>>

\* ------------------------------------------------------------------------
\* evaluate_poker_game: set-up
\* ------------------------------------------------------------------------
IsValidCard(c) == c # BadCard

Range(q) == {q[k] : k \in DOMAIN q}

\* the position map: keys among dealer, sb, bb and indices 0 .. 5
PositionsOk(pos) ==
    /\ \A k \in DOMAIN pos : k \in {"dealer", "sb", "bb"}
    /\ \A k \in DOMAIN pos : pos[k] >= 0 /\ pos[k] < N

\* the checks made before the state is created: stacks, board cards, hole cards
InputsOk(stk, board, holes) ==
    /\ \A i \in Players : stk[i] >= 0
    /\ Cardinality(DOMAIN holes) <= N
    /\ Len(board) <= BoardMax
    /\ \A k \in DOMAIN board : IsValidCard(board[k])
    /\ Cardinality(Range(board)) = Len(board)
    /\ \A i \in DOMAIN holes :
          /\ Len(holes[i]) = 2
          /\ \A k \in 1 .. 2 : IsValidCard(holes[i][k])

\* create_state turns down a stack without chips
CreateOk(stk) == \A i \in Players : stk[i] > 0

\* the hole-card loop, seat by seat from seat i on: a seat's cards must not be
\* among the cards seen so far (the board and the earlier seats' cards)
RECURSIVE DealHolesOk(_, _, _)
DealHolesOk(holes, i, all_cards) ==
    IF i >= N THEN TRUE
    ELSE IF i \notin DOMAIN holes THEN DealHolesOk(holes, i + 1, all_cards)
    ELSE /\ \A k \in 1 .. 2 : holes[i][k] \notin all_cards
         /\ DealHolesOk(holes, i + 1, all_cards \cup Range(holes[i]))

\* a seat is handed the same card twice: deal_hole may raise or may deal it
RepeatedHole(holes) == \E i \in DOMAIN holes : holes[i][1] = holes[i][2]

\* input checks, create_state, hole dealing and the snapshot of the stacks
Setup ==
    /\ pc = "start"
    /\ IF ~InputsOk(stacks_in, board_cards, player_cards)
          \/ ~PositionsOk(positions)
          \/ ~CreateOk(stacks_in)
          \/ ~DealHolesOk(player_cards, 0, Range(board_cards))
       THEN /\ pc' = "error"
            /\ UNCHANGED <<state, initial_stacks>>
       ELSE \/ /\ RepeatedHole(player_cards)
               /\ pc' = "error"
               /\ UNCHANGED <<state, initial_stacks>>
            \/ LET created == CreateState(stacks_in)
                   dealt == IF DOMAIN player_cards = Players
                            THEN BeginBetting(created) ELSE created
               IN /\ state' = dealt
                  /\ initial_stacks' = dealt.stacks
                  /\ pc' = "replay"
    /\ UNCHANGED <<stacks_in, positions, response, board_cards, player_cards,
                   street_cards_dealt,
                   results, last, actions, deck, game, twin, requests, hand>>

\* ------------------------------------------------------------------------
\* evaluate_poker_game: the replay loop, one action of the list per step
\* ------------------------------------------------------------------------
Handled(a, ok) ==
    [type |-> a.type, player |-> a.player, amount |-> a.amount,
     actor |-> Actor(state), valid |-> validate_action(a), applied |-> ok]

\* the action list of the call: a first call takes any action next, of at
\* most MaxReplay; a second call with the same arguments takes the action the
\* first call took at this position
\* the seat that may bet or go all in in these lists
TwinRaiser == 3

TwinActionTypes == {"", "fold", "call", "bet", "allin"} \cup DealActionTypes

\* the actions the lists that are replayed twice are made of
TwinAction(a) ==
    /\ a.type \in TwinActionTypes
    /\ a.player \in {NoPlayer, IF Actor(state) = NoPlayer THEN 0 ELSE Actor(state)}
    /\ a.amount \in {NoAmount, MidStack}
    /\ a.type \in {"bet", "allin"} => a.player = TwinRaiser

Replayed(a) ==
    IF ~twin.on THEN UNCHANGED twin
    ELSE IF twin.run = 1
    THEN /\ Len(twin.log) < MaxReplay
         /\ TwinAction(a)
         /\ twin' = [twin EXCEPT !.log = Append(@, a)]
    ELSE /\ twin.pos < Len(twin.log)
         /\ a = twin.log[twin.pos + 1]
         /\ twin' = [twin EXCEPT !.pos = @ + 1]

\* the action raises: the evaluation ends in an error
Raise(a) ==
    /\ pc' = "error"
    /\ last' = Handled(a, FALSE)
    /\ Replayed(a)

\* the action went through: the loop goes on with the next one
Applied(a, next) ==
    /\ pc' = "replay"
    /\ state' \in Finish(next)
    /\ last' = Handled(a, TRUE)
    /\ Replayed(a)

Frame == UNCHANGED <<stacks_in, positions, response, board_cards,
                     player_cards, initial_stacks,
                     results, actions, deck, game, requests, hand>>

\* validate_action returns False: "Invalid action"
InvalidAction ==
    /\ pc = "replay"
    /\ \E a \in InvalidActions :
          /\ ~validate_action(a)
          /\ Raise(a)
    /\ UNCHANGED <<state, street_cards_dealt>>
    /\ Frame

DealFlop ==
    /\ pc = "replay"
    /\ LET a == Action("deal_flop", NoPlayer, NoAmount)
       IN /\ validate_action(a)
          /\ IF street_cards_dealt # 0
             THEN Raise(a) /\ UNCHANGED <<state, street_cards_dealt>>
             ELSE /\ street_cards_dealt' = FlopCount
                  /\ IF ~BurnOk(state)
                     THEN Raise(a) /\ UNCHANGED state
                     ELSE IF Len(board_cards) < FlopCount
                     THEN Raise(a) /\ state' = BurnCard(state)
                     ELSE Applied(a, DealBoard(BurnCard(state), FlopCount))
    /\ Frame

DealTurn ==
    /\ pc = "replay"
    /\ LET a == Action("deal_turn", NoPlayer, NoAmount)
       IN /\ validate_action(a)
          /\ IF street_cards_dealt # FlopCount
             THEN Raise(a) /\ UNCHANGED <<state, street_cards_dealt>>
             ELSE /\ street_cards_dealt' = FlopCount + 1
                  /\ IF ~BurnOk(state)
                     THEN Raise(a) /\ UNCHANGED state
                     ELSE IF Len(board_cards) > FlopCount
                     THEN Applied(a, DealBoard(BurnCard(state), 1))
                     ELSE Applied(a, BurnCard(state))
    /\ Frame

DealRiver ==
    /\ pc = "replay"
    /\ LET a == Action("deal_river", NoPlayer, NoAmount)
       IN /\ validate_action(a)
          /\ IF street_cards_dealt # FlopCount + 1
             THEN Raise(a) /\ UNCHANGED <<state, street_cards_dealt>>
             ELSE /\ street_cards_dealt' = BoardMax
                  /\ IF ~BurnOk(state)
                     THEN Raise(a) /\ UNCHANGED state
                     ELSE IF Len(board_cards) > FlopCount + 1
                     THEN Applied(a, DealBoard(BurnCard(state), 1))
                     ELSE Applied(a, BurnCard(state))
    /\ Frame

FoldAction ==
    /\ pc = "replay"
    /\ \E p \in PlayerChoices(state) :
          LET a == Action("fold", p, NoAmount)
          IN /\ validate_action(a)
             /\ IF FoldOk(state)
                THEN Applied(a, Fold(state))
                ELSE Raise(a) /\ UNCHANGED state
    /\ UNCHANGED street_cards_dealt
    /\ Frame

\* "check" and "call" both call check_or_call()
CheckOrCallAction ==
    /\ pc = "replay"
    /\ \E t \in {"check", "call"}, p \in PlayerChoices(state) :
          LET a == Action(t, p, NoAmount)
          IN /\ validate_action(a)
             /\ IF CheckOrCallOk(state)
                THEN Applied(a, CheckOrCall(state))
                ELSE Raise(a) /\ UNCHANGED state
    /\ UNCHANGED street_cards_dealt
    /\ Frame

\* "bet" and "raise" both call complete_bet_or_raise_to(amount)
BetOrRaiseAction ==
    /\ pc = "replay"
    /\ \E t \in {"bet", "raise"}, p \in PlayerChoices(state),
          amt \in AmountChoices :
          LET a == Action(t, p, amt)
          IN /\ validate_action(a)
             /\ IF RaiseOk(state, amt)
                THEN Applied(a, RaiseTo(state, amt))
                ELSE Raise(a) /\ UNCHANGED state
    /\ UNCHANGED street_cards_dealt
    /\ Frame

\* "allin": complete_bet_or_raise_to(stacks[actor]); nothing when nobody acts
AllInAction ==
    /\ pc = "replay"
    /\ \E p \in PlayerChoices(state) :
          LET a == Action("allin", p, NoAmount)
          IN /\ validate_action(a)
             /\ IF Actor(state) = NoPlayer
                THEN Applied(a, state)
                ELSE IF RaiseOk(state, state.stacks[Actor(state)])
                THEN Applied(a, RaiseTo(state, state.stacks[Actor(state)]))
                ELSE Raise(a) /\ UNCHANGED state
    /\ UNCHANGED street_cards_dealt
    /\ Frame

\* the action list is exhausted: showdown check and the results
Return ==
    /\ pc = "replay"
    /\ (twin.on /\ twin.run = 2) => twin.pos = Len(twin.log)
    /\ IF ~IsTerminal(state) /\ street_cards_dealt = BoardMax
       THEN pc' = "error" /\ UNCHANGED results
       ELSE /\ pc' = "done"
            /\ results' = [i \in Players |-> state.stacks[i] - initial_stacks[i]]
    /\ UNCHANGED <<stacks_in, positions, response, board_cards, player_cards,
                   state, initial_stacks,
                   street_cards_dealt, last, actions, deck, game, twin,
                   requests, hand>>

Next ==
    \/ Setup
    \/ InvalidAction
    \/ DealFlop
    \/ DealTurn
    \/ DealRiver
    \/ FoldAction
    \/ CheckOrCallAction
    \/ BetOrRaiseAction
    \/ AllInAction
    \/ Return

Spec == Init /\ [][Next]_vars

\* ------------------------------------------------------------------------
\* add_action: one request appends one action to the stored history
\* ------------------------------------------------------------------------
\* the actions submitted to the endpoint
ApiActions ==
    InvalidActions \cup
    {Action("deal_flop", NoPlayer, NoAmount),
     Action("deal_turn", NoPlayer, NoAmount),
     Action("fold", 2, NoAmount),
     Action("check", 1, NoAmount),
     Action("bet", 1, BigBlind)}

\* the game as create_new_game made it and the repository stores it
InitApi ==
    /\ pc = "api"
    /\ Idle
    /\ twin = NoTwin
    /\ stacks_in = Stacks(<<DeepStack, DeepStack, DeepStack,
                            DeepStack, DeepStack, DeepStack>>)
    /\ board_cards = Board(BoardMax)
    /\ player_cards = Holes(Players)
    /\ positions = TestPositions
    /\ state = NoState
    /\ initial_stacks = Zeros
    /\ street_cards_dealt = 0
    /\ results = Zeros
    /\ last = NoAction
    /\ actions = <<>>

ApiFrame == UNCHANGED <<pc, stacks_in, positions, board_cards,
                        player_cards, state,
                        initial_stacks, street_cards_dealt, results, deck,
                        game, twin, requests, hand>>

\* the statuses add_action answers with
HTTP_200_OK == 200
HTTP_400_BAD_REQUEST == 400
HTTP_500_INTERNAL_SERVER_ERROR == 500

\* what the except clauses around the validation make of an exception raised
\* inside the try block: a ValueError becomes a 400, anything else, the
\* HTTPException raised for a rejected action included, becomes a 500
ExceptClauses(raised) ==
    IF raised = "ValueError" THEN HTTP_400_BAD_REQUEST
    ELSE HTTP_500_INTERNAL_SERVER_ERROR

\* validate_action accepts: the action is appended and the game is saved
AddAction ==
    /\ pc = "api"
    /\ Len(actions) < MaxStored
    /\ \E a \in ApiActions :
          /\ validate_action(a)
          /\ actions' = Append(actions, a)
          /\ last' = Handled(a, TRUE)
    /\ response' = HTTP_200_OK
    /\ ApiFrame

\* validate_action turns the action down: an HTTPException is raised inside
\* the try block and nothing is saved
AddActionRejected ==
    /\ pc = "api"
    /\ \E a \in ApiActions :
          /\ ~validate_action(a)
          /\ last' = Handled(a, FALSE)
    /\ response' = ExceptClauses("HTTPException")
    /\ UNCHANGED actions
    /\ ApiFrame

NextApi ==
    \/ AddAction
    \/ AddActionRejected

SpecApi == InitApi /\ [][NextApi]_vars

\* ------------------------------------------------------------------------
\* evaluate_hand
\* ------------------------------------------------------------------------
\* A well-formed card is a number 1 .. 52: four suits per rank, ranks 2 .. 14
\* (14 is the ace), suit 0 is spades.
RankOf(c) == ((c - 1) \div 4) + 2
SuitOf(c) == (c - 1) % 4
CardOf(r, s) == (r - 2) * 4 + s + 1

HandSize == 5

\* the table from hand type to rank, and its lookup with default 1
hand_ranks ==
    [HighCard |-> 1, Pair |-> 2, TwoPair |-> 3, ThreeOfAKind |-> 4,
     Straight |-> 5, Flush |-> 6, FullHouse |-> 7, FourOfAKind |-> 8,
     StraightFlush |-> 9, RoyalFlush |-> 10]

HandRanksGet(name) ==
    IF name \in DOMAIN hand_ranks THEN hand_ranks[name] ELSE 1

\* the name of the class of the object StandardHighHand(...) returns, without
\* its "Hand"
HandTypeName == "StandardHigh"

\* the loop over the cards, from position k on: the first card that is
\* malformed or was seen before ends it
RECURSIVE CardsError(_, _, _)
CardsError(cards, k, seen_cards) ==
    IF k > Len(cards) THEN "none"
    ELSE IF ~IsValidCard(cards[k]) THEN "invalid"
    ELSE IF cards[k] \in seen_cards THEN "duplicate"
    ELSE CardsError(cards, k + 1, seen_cards \cup {cards[k]})

HandError(cards, why) == [status |-> "error", cards |-> cards, why |-> why]

\* StandardHighHand(cards) is a hand of exactly five cards
evaluate_hand(cards) ==
    IF Len(cards) < HandSize THEN HandError(cards, "too_few")
    ELSE IF CardsError(cards, 1, {}) # "none"
    THEN HandError(cards, CardsError(cards, 1, {}))
    ELSE IF Len(cards) # HandSize THEN HandError(cards, "evaluation")
    ELSE [status     |-> "ok",
          cards      |-> cards,
          hand_type  |-> HandTypeName,
          rank       |-> HandRanksGet(HandTypeName),
          best_cards |-> SubSeq(cards, 1, HandSize)]

\* seven cards each: the first five make, in this order, a royal flush, a
\* straight flush, four of a kind, a full house, a flush, a straight, three
\* of a kind, two pair, a pair and a high card
BaseHands ==
    {<<CardOf(14, 0), CardOf(13, 0), CardOf(12, 0), CardOf(11, 0), CardOf(10, 0),
       CardOf(2, 1), CardOf(3, 2)>>,
     <<CardOf(9, 1), CardOf(8, 1), CardOf(7, 1), CardOf(6, 1), CardOf(5, 1),
       CardOf(2, 0), CardOf(3, 2)>>,
     <<CardOf(9, 0), CardOf(9, 1), CardOf(9, 2), CardOf(9, 3), CardOf(5, 1),
       CardOf(2, 0), CardOf(3, 2)>>,
     <<CardOf(9, 0), CardOf(9, 1), CardOf(9, 2), CardOf(5, 3), CardOf(5, 1),
       CardOf(2, 0), CardOf(3, 2)>>,
     <<CardOf(14, 2), CardOf(9, 2), CardOf(7, 2), CardOf(6, 2), CardOf(5, 2),
       CardOf(2, 0), CardOf(3, 1)>>,
     <<CardOf(14, 2), CardOf(2, 1), CardOf(3, 2), CardOf(4, 0), CardOf(5, 2),
       CardOf(9, 0), CardOf(9, 1)>>,
     <<CardOf(9, 0), CardOf(9, 1), CardOf(9, 2), CardOf(6, 3), CardOf(5, 1),
       CardOf(2, 0), CardOf(3, 2)>>,
     <<CardOf(9, 0), CardOf(9, 1), CardOf(6, 2), CardOf(6, 3), CardOf(5, 1),
       CardOf(2, 0), CardOf(3, 2)>>,
     <<CardOf(9, 0), CardOf(9, 1), CardOf(7, 2), CardOf(6, 3), CardOf(5, 1),
       CardOf(2, 0), CardOf(3, 2)>>,
     <<CardOf(14, 0), CardOf(9, 1), CardOf(7, 2), CardOf(6, 3), CardOf(5, 1),
       CardOf(2, 0), CardOf(3, 2)>>}

\* the inputs: the first n cards of a base hand, as they are or with one card
\* replaced by a malformed card or by the first card of the hand
HandInputs ==
    LET cut == UNION {{SubSeq(b, 1, n) : n \in 0 .. Len(b)} : b \in BaseHands}
    IN cut \cup UNION {{[h EXCEPT ![k] = c] :
                           k \in 2 .. Len(h), c \in {BadCard, h[1]}} :
                       h \in {x \in cut : Len(x) >= 2}}

InitHand ==
    /\ pc = "hand"
    /\ stacks_in = Zeros
    /\ board_cards = <<>>
    /\ player_cards = <<>>
    /\ positions = NoPositions
    /\ state = NoState
    /\ initial_stacks = Zeros
    /\ street_cards_dealt = 0
    /\ results = Zeros
    /\ last = NoAction
    /\ actions = <<>>
    /\ Idle
    /\ twin = NoTwin

EvaluateHand ==
    /\ pc = "hand"
    /\ \E cards \in HandInputs : hand' = evaluate_hand(cards)
    /\ UNCHANGED <<pc, stacks_in, positions, response, board_cards,
                   player_cards, state,
                   initial_stacks, street_cards_dealt, results, last, actions,
                   deck, game, twin, requests>>

NextHand == EvaluateHand

SpecHand == InitHand /\ [][NextHand]_vars

\* ------------------------------------------------------------------------
\* add_action: requests on one game that run side by side
\* ------------------------------------------------------------------------
\* A request reads the game (get_poker_hand), validates and appends to its own
\* copy of the history, and saves the copy (create_poker_hand: the stored
\* history is overwritten).  Nothing orders the read of one request and the
\* save of another.
Workers == 1 .. 2

NoRequest == [pc |-> "idle", action |-> NoAction, local |-> <<>>]

InitConc ==
    /\ pc = "conc"
    /\ stacks_in = Stacks(<<DeepStack, DeepStack, DeepStack,
                            DeepStack, DeepStack, DeepStack>>)
    /\ board_cards = Board(BoardMax)
    /\ player_cards = Holes(Players)
    /\ positions = TestPositions
    /\ state = NoState
    /\ initial_stacks = Zeros
    /\ street_cards_dealt = 0
    /\ results = Zeros
    /\ last = NoAction
    /\ actions = <<>>
    /\ deck = StandardDeck
    /\ game = NoGame
    /\ hand = NoHand
    /\ twin = NoTwin
    /\ response = NoResponse
    /\ requests = [slots |-> [w \in Workers |-> NoRequest], succeeded |-> <<>>]

ConcFrame == UNCHANGED <<pc, stacks_in, positions, response, board_cards,
                   player_cards, state,
                         initial_stacks, street_cards_dealt, results, deck,
                         game, twin, hand>>

\* repository.get_poker_hand: the request holds the history as stored now
ReadGame ==
    /\ pc = "conc"
    /\ Len(requests.succeeded) < MaxStored
    /\ \E w \in Workers, a \in ApiActions :
          /\ requests.slots[w].pc \in {"idle", "saved", "rejected"}
          /\ requests' = [requests EXCEPT
                 !.slots[w] = [pc |-> "read", action |-> a, local |-> actions]]
    /\ UNCHANGED <<actions, last>>
    /\ ConcFrame

\* validate_action turns the action down: 400, nothing is saved
RequestRejected ==
    /\ pc = "conc"
    /\ \E w \in Workers :
          LET r == requests.slots[w]
          IN /\ r.pc = "read"
             /\ ~validate_action(r.action)
             /\ requests' = [requests EXCEPT !.slots[w].pc = "rejected"]
             /\ last' = Handled(r.action, FALSE)
    /\ UNCHANGED actions
    /\ ConcFrame

\* game.actions.append(action); repository.create_poker_hand(game)
SaveGame ==
    /\ pc = "conc"
    /\ \E w \in Workers :
          LET r == requests.slots[w]
              appended == Append(r.local, r.action)
          IN /\ r.pc = "read"
             /\ validate_action(r.action)
             /\ actions' = appended
             /\ requests' = [requests EXCEPT
                    !.slots[w] = [r EXCEPT !.pc = "saved", !.local = appended],
                    !.succeeded = Append(@, r.action)]
             /\ last' = Handled(r.action, TRUE)
    /\ ConcFrame

NextConc ==
    \/ ReadGame
    \/ RequestRejected
    \/ SaveGame

SpecConc == InitConc /\ [][NextConc]_vars

\* ------------------------------------------------------------------------
\* create_new_game
\* ------------------------------------------------------------------------
DefaultStack == 1000
DealerPos == 0

\* the orders shuffle() leaves the deck in: cut at k, and turned over or not
Cut(d, k) == [j \in 1 .. Len(d) |-> d[((j - 1 + k) % Len(d)) + 1]]
Reverse(d) == [j \in 1 .. Len(d) |-> d[Len(d) + 1 - j]]
Shuffled(d, k, r) == IF r THEN Reverse(Cut(d, k)) ELSE Cut(d, k)

\* deck.pop(): the last card, and the deck without it
Top(d) == d[Len(d)]

\* variant: the card stays in the deck
PopKeeps(d) == d

Pop(d) == SubSeq(d, 1, Len(d) - 1)

\* the hole-card loop: two cards per seat, from seat i on
RECURSIVE DealHoleCards(_, _, _)
DealHoleCards(d, i, cards) ==
    IF i >= N THEN [ok |-> TRUE, deck |-> d, player_cards |-> cards]
    ELSE IF Len(d) < 2 THEN [ok |-> FALSE, deck |-> d, player_cards |-> cards]
    ELSE LET card1 == Top(d)
             d1 == Pop(d)
             card2 == Top(d1)
             d2 == Pop(d1)
         IN DealHoleCards(d2, i + 1, cards @@ (i :> <<card1, card2>>))

\* burn, three flop cards, burn, turn, burn, river
DealBoardCards(d) ==
    LET d1 == Pop(d)
        flop1 == Top(d1)
        d2 == Pop(d1)
        flop2 == Top(d2)
        d3 == Pop(d2)
        flop3 == Top(d3)
        d4 == Pop(d3)
        d5 == Pop(d4)
        turn_card == Top(d5)
        d6 == Pop(d5)
        d7 == Pop(d6)
        river_card == Top(d7)
        d8 == Pop(d7)
    IN [deck |-> d8,
        board_cards |-> <<flop1, flop2, flop3, turn_card, river_card>>]

NewGame(stack_size, holes, board) ==
    [status       |-> "ok",
     stacks       |-> [i \in Players |-> stack_size],
     positions    |-> [dealer |-> DealerPos,
                       sb |-> (DealerPos + 1) % N,
                       bb |-> (DealerPos + 2) % N],
     player_cards |-> holes,
     board_cards  |-> board,
     actions      |-> <<>>]

\* create_new_game(num_players, stack_size) with the deck shuffled to d
CreateNewGameOn(num_players, stack_size, d) ==
    IF num_players # N \/ stack_size <= 0
    THEN /\ game' = [status |-> "rejected"]
         /\ UNCHANGED deck
    ELSE LET h == DealHoleCards(d, 0, <<>>)
         IN IF ~h.ok \/ Len(h.deck) < 8
            THEN /\ game' = [status |-> "out_of_cards"]
                 /\ deck' = h.deck
            ELSE LET b == DealBoardCards(h.deck)
                 IN /\ game' = NewGame(stack_size, h.player_cards, b.board_cards)
                    /\ deck' = b.deck

PlayerCounts == {N - 1, N}
StackSizes == {0, BigBlind, DefaultStack}

InitNewGame ==
    /\ pc = "service"
    /\ stacks_in = Zeros
    /\ board_cards = <<>>
    /\ player_cards = <<>>
    /\ positions = NoPositions
    /\ state = NoState
    /\ initial_stacks = Zeros
    /\ street_cards_dealt = 0
    /\ results = Zeros
    /\ last = NoAction
    /\ actions = <<>>
    /\ Idle
    /\ twin = NoTwin

CreateNewGame ==
    /\ pc = "service"
    /\ \E np \in PlayerCounts, ss \in StackSizes, k \in 0 .. MaxCut, r \in BOOLEAN :
          CreateNewGameOn(np, ss, Shuffled(StandardDeck, k, r))
    /\ UNCHANGED <<pc, stacks_in, positions, response, board_cards,
                   player_cards, state,
                   initial_stacks, street_cards_dealt, results, last, actions,
                   twin, requests, hand>>

NextNewGame == CreateNewGame

SpecNewGame == InitNewGame /\ [][NextNewGame]_vars

\* ------------------------------------------------------------------------
\* evaluate_poker_game called twice with the same arguments on one service
\* ------------------------------------------------------------------------
TwinInputs ==
    {Input(<<10, 30, BigBlind, MidStack, BigBlind, BigBlind>>,
           Board(BoardMax), Holes(Players)),
     Input(<<BigBlind, BigBlind, BigBlind, BigBlind, BigBlind, BigBlind>>,
           Board(FlopCount), Holes(Players)),
     Input(<<BigBlind, BigBlind, BigBlind, BigBlind, BigBlind, BigBlind>>,
           [Board(FlopCount) EXCEPT ![1] = 1], Holes({0, 1}))}

\* the hands the cards make: seat 0 has the best one, or all tie
TwinHands ==
    {[i \in Players |-> IF i = 0 THEN 2 ELSE 1],
     [i \in Players |-> 1]}

InitTwin ==
    /\ pc = "start"
    /\ \E in \in TwinInputs :
          /\ stacks_in = in.stacks
          /\ board_cards = in.board_cards
          /\ player_cards = in.player_cards
          /\ positions = in.positions
    /\ state = NoState
    /\ initial_stacks = Zeros
    /\ street_cards_dealt = 0
    /\ results = Zeros
    /\ last = NoAction
    /\ actions = <<>>
    /\ Idle
    /\ \E h \in TwinHands : twin = [NoTwin EXCEPT !.on = TRUE, !.hands = h]

\* variant: the count of the call before is kept
StreetCountKept(before) == before

\* street_cards_dealt is a local of the call and starts at 0
StreetCountAtEntry(before) == 0

\* between the two calls create_new_game is called on the same service
NewGameBetween ==
    /\ twin.on /\ twin.run = 1
    /\ pc \in {"done", "error"}
    /\ game = NoGame
    /\ CreateNewGameOn(N, DefaultStack, Shuffled(StandardDeck, 1, TRUE))
    /\ UNCHANGED <<pc, stacks_in, positions, response, board_cards,
                   player_cards, state,
                   initial_stacks, street_cards_dealt, results, last, actions,
                   twin, requests, hand>>

\* the position maps of the second call: the same one and others that pass
\* the checks
TwinPositions ==
    {TestPositions, SeatZeroSmallBlind, SamePositions, NoPositions}

\* the second call: the outcome of the first is kept aside, the locals are
\* new, and the position map is any that passes the checks
CallAgain ==
    /\ twin.on /\ twin.run = 1
    /\ pc \in {"done", "error"}
    /\ twin' = [twin EXCEPT !.run = 2,
                            !.first = [pc |-> pc, results |-> results,
                                       stacks |-> state.stacks,
                                       positions |-> positions]]
    /\ positions' \in TwinPositions
    /\ pc' = "start"
    /\ state' = NoState
    /\ initial_stacks' = Zeros
    /\ results' = Zeros
    /\ last' = NoAction
    /\ street_cards_dealt' = StreetCountAtEntry(street_cards_dealt)
    /\ UNCHANGED <<stacks_in, response, board_cards, player_cards, actions,
                   deck, game, requests, hand>>

NextTwin ==
    \/ Next
    \/ NewGameBetween
    \/ CallAgain

SpecTwin == InitTwin /\ [][NextTwin]_vars

\* ------------------------------------------------------------------------
\* Properties
\* ------------------------------------------------------------------------
Running == pc \in {"replay", "done"}

\* chips are neither created nor lost
ChipsConserved ==
    pc \in {"replay", "done"} =>
        Total(state.stacks) + TotalPot(state) = Total(stacks_in)


\* the player field of a handled player action names another seat than the
\* one whose turn it is (or nobody's turn it is)
WrongActor(st, l) == l.type \in PlayerActionTypes /\ l.player # Actor(st)

\* C1: an action that validate_action turns down or that names a seat whose
\* turn it is not ends the replay in an error and leaves the game state as it
\* was.
C1_AtomicRejection ==
    [][(pc = "replay" /\ last' # last
            /\ (~last'.valid \/ WrongActor(state, last')))
          => (pc' = "error" /\ state' = state)]_vars

\* C2: for a settled hand the results are final stack minus supplied stack,
\* and they sum to zero.
C2_NetResults ==
    (pc = "done" /\ IsTerminal(state)) =>
        /\ \A i \in Players : results[i] = state.stacks[i] - stacks_in[i]
        /\ Total(results) = 0

\* C3: when a fold leaves one seat in the hand, the hand is over at once, the
\* seat left wins the others' contributions and every other seat loses its own.
C3_FoldWinsPot ==
    (pc = "done" /\ last.type = "fold" /\ last.applied
        /\ Cardinality(InHand(state)) = 1) =>
        /\ IsTerminal(state)
        /\ \A i \in Players :
              results[i] = IF i \in InHand(state)
                           THEN Total(state.contributed) - state.contributed[i]
                           ELSE 0 - state.contributed[i]

\* C4: an action is applied if and only if validate_action accepts it.
C4_ValidatorAgreesWithEngine ==
    last.type # "none" => (last.applied <=> last.valid)

FlopsStored == {k \in DOMAIN actions : actions[k].type = "deal_flop"}

\* C5: the stored history of a game never holds a second deal_flop.
C5_SecondFlopRejected == Cardinality(FlopsStored) <= 1

\* C6: while the replay runs and when it returns, the board shows 0, 3, 4 or
\* 5 cards and the loop's count of dealt street cards equals that number.
C6_BoardMatchesCount ==
    Running =>
        /\ state.board \in {0, FlopCount, FlopCount + 1, BoardMax}
        /\ street_cards_dealt = state.board

CardsDealt ==
    Range(board_cards) \cup UNION {Range(player_cards[i]) : i \in DOMAIN player_cards}

\* C7: a call that is not rejected has pairwise distinct cards over the board
\* and all hole cards.
C7_CardsDistinct ==
    Running =>
        Cardinality(CardsDealt)
            = Len(board_cards) + 2 * Cardinality(DOMAIN player_cards)

\* C8 as stated: in every state of a hand the pot, bets included, equals the
\* sum of the seats' contributions.
C8_PotEqualsContributions ==
    Running => TotalPot(state) = Total(state.contributed)

\* C8 as amended: the pot equals the sum of the contributions in every state
\* of a hand that is not settled yet; a settled hand has an empty pot.
C8_PotWhileOpen ==
    Running =>
        /\ state.status => TotalPot(state) = Total(state.contributed)
        /\ ~state.status => TotalPot(state) = 0

\* a later street with chips in the pot and a bet not yet collected
C8_Witness ==
    /\ pc = "replay"
    /\ state.status
    /\ last.applied
    /\ state.pot > 0
    /\ Total(state.bets) > 0

\* C9: no stack is ever negative, and before the hand is settled a seat's stack
\* plus its contribution does not exceed the stack supplied for it.
C9_StackBounds ==
    Running =>
        \A i \in Players :
            /\ state.stacks[i] >= 0
            /\ state.status =>
                  state.stacks[i] + state.contributed[i] <= stacks_in[i]

\* a seat with less than its blind has posted all it had, and play went on
C9_Witness ==
    /\ pc = "replay"
    /\ last.applied
    /\ stacks_in[0] < SmallBlind
    /\ state.stacks[0] = 0
    /\ state.contributed[0] = stacks_in[0]

\* C10: an applied player action names the seat whose turn it was.
C10_NamedPlayerActs ==
    (last.applied /\ last.type \in PlayerActionTypes) =>
        last.player = last.actor

\* the chips seat i can put behind a bet on this street
Behind(st, i) == st.stacks[i] + st.bets[i]

GameCards(g) ==
    Range(g.board_cards) \cup UNION {Range(g.player_cards[i]) : i \in Players}

\* C17: create_new_game never runs out of cards, and a game it returns has six
\* seats with two hole cards each, five board cards, 17 pairwise distinct
\* cards, dealer 0, small blind 1, big blind 2, six equal stacks and no action.
C17_NewGameWellFormed ==
    /\ game.status # "out_of_cards"
    /\ game.status = "ok" =>
          /\ DOMAIN game.player_cards = Players
          /\ \A i \in Players : Len(game.player_cards[i]) = 2
          /\ Len(game.board_cards) = BoardMax
          /\ Cardinality(GameCards(game)) = 2 * N + BoardMax
          /\ GameCards(game) \subseteq Range(StandardDeck)
          /\ game.positions = [dealer |-> 0, sb |-> 1, bb |-> 2]
          /\ \A i, j \in Players : game.stacks[i] = game.stacks[j]
          /\ game.actions = <<>>
          /\ Len(deck) = DeckSize - 20

\* a game dealt off a deck that was cut and turned over
C17_Witness ==
    /\ game.status = "ok"
    /\ game.stacks[0] = DefaultStack
    /\ game.player_cards[0][1] < game.player_cards[0][2]
    /\ game.player_cards[0][1] # 1

C13_AppendOnly ==
    pc = "conc" => actions = requests.succeeded

\* C14: results are returned only for a settled hand: a replay whose action
\* list stops while the hand is still open returns no results.
C14_ResultsOnlyWhenSettled ==
    pc = "done" => IsTerminal(state)

Distinct(cards) == Cardinality(Range(cards)) = Len(cards)
WellFormed(cards) == \A k \in DOMAIN cards : cards[k] \in Range(StandardDeck)

\* C15: evaluate_hand fails for fewer than 5 cards and for a repeated card,
\* and returns a ranking for 5 to 7 well-formed, pairwise distinct cards.
C15_HandErrors ==
    hand.status # "none" =>
        /\ Len(hand.cards) < 5 => hand.status = "error"
        /\ ~Distinct(hand.cards) => hand.status = "error"
        /\ (Len(hand.cards) \in 5 .. 7 /\ WellFormed(hand.cards)
               /\ Distinct(hand.cards)) => hand.status = "ok"

\* the category of a five-card hand, by the rules of poker
RanksIn(h) == {RankOf(h[k]) : k \in DOMAIN h}
Times(h, r) == Cardinality({k \in DOMAIN h : RankOf(h[k]) = r})
MostTimes(h) == Max({Times(h, r) : r \in RanksIn(h)})
IsFlush(h) == \A k \in DOMAIN h : SuitOf(h[k]) = SuitOf(h[1])
IsStraight(h) ==
    /\ Cardinality(RanksIn(h)) = 5
    /\ \/ Max(RanksIn(h)) - Min(RanksIn(h)) = 4
       \/ RanksIn(h) = {14, 2, 3, 4, 5}
Category(h) ==
    IF IsFlush(h) /\ IsStraight(h)
    THEN (IF Min(RanksIn(h)) = 10 THEN "RoyalFlush" ELSE "StraightFlush")
    ELSE IF MostTimes(h) = 4 THEN "FourOfAKind"
    ELSE IF MostTimes(h) = 3 /\ Cardinality(RanksIn(h)) = 2 THEN "FullHouse"
    ELSE IF IsFlush(h) THEN "Flush"
    ELSE IF IsStraight(h) THEN "Straight"
    ELSE IF MostTimes(h) = 3 THEN "ThreeOfAKind"
    ELSE IF Cardinality(RanksIn(h)) = 3 THEN "TwoPair"
    ELSE IF Cardinality(RanksIn(h)) = 4 THEN "Pair"
    ELSE "HighCard"

\* C16: for a well-formed five-card hand evaluate_hand returns the name of
\* the hand's category and the rank of that category, 1 for HighCard up to 10
\* for RoyalFlush.
C16_CategoryAndRank ==
    (hand.status = "ok" /\ Len(hand.cards) = 5) =>
        /\ hand.hand_type = Category(hand.cards)
        /\ hand.rank = hand_ranks[Category(hand.cards)]

\* what seat i still has to put in to match the largest bet
ToCall(st, i) == MaxBet(st) - st.bets[i]

\* C18: a check is applied only when the actor has nothing to call; a check
\* sent while the actor faces a bet is rejected and moves no chips.
C18_CheckOnlyWhenNothingToCall ==
    [][(pc = "replay" /\ last' # last /\ last'.type = "check"
            /\ last'.valid /\ last'.actor # NoPlayer
            /\ ToCall(state, last'.actor) > 0) =>
          (pc' = "error" /\ state' = state)]_vars

\* the betting round is closed: every seat that is in the hand and has chips
\* has matched the largest bet, or one seat is left in the hand
RoundClosed(st) ==
    \/ Cardinality(InHand(st)) = 1
    \/ \A i \in Active(st) : ToCall(st, i) = 0

\* C19: deal_flop, deal_turn and deal_river are applied only when the betting
\* round is closed; sent while it is open they end the replay in an error and
\* no board card is revealed.
C19_StreetAdvanceWhenClosed ==
    [][(pc = "replay" /\ last' # last /\ last'.type \in DealActionTypes) =>
          /\ last'.applied => RoundClosed(state)
          /\ ~RoundClosed(state) =>
                (pc' = "error" /\ state'.board = state.board)]_vars

\* the turn was dealt after a flop betting round that had chips going in
C19_Witness ==
    /\ pc = "replay"
    /\ last.type = "deal_turn" /\ last.applied
    /\ state.board = FlopCount + 1
    /\ Total(state.contributed) > Total([i \in Players |-> EffectiveBlind(stacks_in, i)]) + BigBlind

\* C20: after an applied allin the actor has no chips left.
C20_AllInEmptiesStack ==
    (last.type = "allin" /\ last.applied /\ last.actor # NoPlayer) =>
        state.stacks[last.actor] = 0

\* the first seat after seat k, in seating order, that has not folded and
\* still has chips
FirstActiveAfter(st, k) ==
    LET q == SelectSeq(Rotation((k + 1) % N), LAMBDA i : i \in Active(st))
    IN IF q = <<>> THEN NoPlayer ELSE Head(q)

\* the replay stands at the opening of the preflop round
PreflopOpening == pc = "replay" /\ last = NoAction /\ Actor(state) # NoPlayer

\* the replay stands at the opening of a later street
StreetOpening ==
    /\ pc = "replay"
    /\ last.type \in DealActionTypes /\ last.applied
    /\ Actor(state) # NoPlayer

\* C21: turn order follows the position map passed in: preflop the first
\* actor is the first seat able to act after positions.bb, and on a later
\* street it is the first seat able to act after positions.dealer.
C21_TurnOrderFollowsPositions ==
    /\ (PreflopOpening /\ "bb" \in DOMAIN positions) =>
           Actor(state) = FirstActiveAfter(state, positions["bb"])
    /\ (StreetOpening /\ "dealer" \in DOMAIN positions) =>
           Actor(state) = FirstActiveAfter(state, positions["dealer"])

\* between two openings the turn passes to the next seat able to act
C21_NextInSeatingOrder ==
    [][(pc = "replay" /\ last' # last /\ last'.type \in PlayerActionTypes
        /\ last'.applied /\ Actor(state') # NoPlayer
        /\ state'.board = state.board) =>
           Actor(state') = FirstActiveAfter(state', last'.actor)]_vars

\* the engine's own order: seat 1 is the big blind and seat N - 1 the button
C21_EngineOrder ==
    /\ PreflopOpening => Actor(state) = FirstActiveAfter(state, 1)
    /\ StreetOpening => Actor(state) = FirstActiveAfter(state, N - 1)

\* seats that are still in the hand with no chips left
AllIn(st) == {i \in InHand(st) : st.stacks[i] = 0}

\* C22: the acting player, when there is one, has neither folded nor gone
\* all-in; when no seat is able to act the betting round is closed and there
\* is no acting player.
C22_ActorCanAct ==
    (pc \in {"replay", "done", "error"}) =>
        /\ Actor(state) # NoPlayer =>
              /\ Actor(state) \in Players
              /\ state.statuses[Actor(state)]
              /\ state.stacks[Actor(state)] > 0
        /\ Active(state) = {} =>
              (state.phase # "betting" /\ Actor(state) = NoPlayer)

\* the turn went past a seat unable to act while one seat has folded and
\* another is all-in
C22_Witness ==
    /\ pc = "replay"
    /\ last.type \in PlayerActionTypes /\ last.applied
    /\ Actor(state) # NoPlayer
    /\ Actor(state) # (last.actor + 1) % N
    /\ \E i \in Players : ~state.statuses[i]
    /\ AllIn(state) # {}

\* every seat left in the hand is all-in and the replay goes on
C22_NobodyCanAct ==
    pc = "replay" /\ state.phase # "none" /\ Active(state) = {}

\* C23: when validate_action turns down the action sent to add_action, the
\* answer is a 400 and the stored action list is what it was.
C23_RejectedActionIs400 ==
    [][(pc = "api" /\ last' # last /\ ~last'.valid) =>
          /\ response' = HTTP_400_BAD_REQUEST
          /\ actions' = actions]_vars

\* a rejected action leaves the stored action list alone
C23_RejectedNotSaved ==
    [][(pc = "api" /\ last' # last /\ ~last'.valid) => actions' = actions]_vars

\* C24: a second call with the same stacks, cards and action list and another
\* position map that passes the checks ends as the first did: the same
\* results, or an error at the same action.
C24_PositionsDoNotMatter ==
    (/\ twin.on /\ twin.run = 2
     /\ positions # twin.first.positions
     /\ PositionsOk(positions) /\ PositionsOk(twin.first.positions)
     /\ pc \in {"done", "error"}) =>
        /\ pc = twin.first.pc
        /\ results = twin.first.results
        /\ twin.pos = Len(twin.log)

\* both calls went to a showdown that moved chips, the second one with a map
\* whose indices are all the same
C24_Witness ==
    /\ twin.on /\ twin.run = 2
    /\ twin.first.positions = TestPositions
    /\ positions = SamePositions
    /\ pc = "done"
    /\ state.board = BoardMax
    /\ results # Zeros
    /\ results = twin.first.results

\* the second call, made with another map, ended in the error of the first
C24_SameError ==
    /\ twin.on /\ twin.run = 2
    /\ positions = NoPositions
    /\ pc = "error" /\ twin.first.pc = "error"
    /\ twin.pos > 0

====
